---- MODULE Spec2Model ----
(***************************************************************************)
(* State-machine model of the vms_dataspace volunteer-management           *)
(* application (Django): the event-sharing / cross-organization            *)
(* participation simulation, the two onboarding handlers and the log sink. *)
(*                                                                         *)
(* Modelling conventions                                                   *)
(*  - Python None for a foreign key is NoOrg (0); primary keys are the     *)
(*    AutoField sequence 1, 2, ...; rows are never deleted.                *)
(*  - A hash (hashlib.sha1(..).hexdigest()[:n]) is the tuple of what was   *)
(*    hashed; an empty CharField that later holds such a value is <<>>.    *)
(*  - A volunteer name is the sequence of its characters.                  *)
(*  - The LogEntry table is append-only and no handler reads it.  The      *)
(*    variable log holds the rows the last request appended, in order;     *)
(*    rows of earlier requests are not tracked.                            *)
(*  - response is the HTTP response of the last request.                   *)
(*  - certs is the Certificate table, in primary-key order.  The Skill     *)
(*    table is the set of labels some volunteer or event holds (rows are   *)
(*    created by get_or_create and never deleted).                         *)
(*  - An unordered queryset is read in primary-key order.                  *)
(*  - No routed handler gives a volunteer an organization.  The admin's    *)
(*    model form does, and its CharField strips the name; a row written    *)
(*    through the ORM or loaded from a fixture keeps the name as given.    *)
(*    The specifications of the handlers start from form-made volunteers;  *)
(*    SpecNames draws the names the name column can hold.                  *)
(***************************************************************************)
EXTENDS Integers, Sequences, FiniteSets, TLC

VARIABLES orgs, vols, events, certs, log, response

vars == <<orgs, vols, events, certs, log, response>>

----------------------------------------------------------------------------
(* Bounds of the model *)

\* Most VolunteerEvent rows ever created in a behaviour.
MaxEvents == 2
\* Most Organization rows (two seeded, the rest created by onboarding).
MaxOrgs == 3
\* Most skills an onboarding catalog_sample declares, over all its items.
MaxCatalogSkills == 3

\* Most Certificate rows ever issued in a behaviour.
MaxCerts == 2
\* Most items of a certificate request.
MaxItems == 2

\* Most finished activities of a volunteer in the drawn histories.
MaxActivities == 5

----------------------------------------------------------------------------
(* Program constants *)

NoOrg == 0

\* views.py: "if unknowns > 2"
UnknownThreshold == 2

\* models.py Organization.local_skill_mapping (keys)
local_skill_mapping ==
    {"CPR", "Emergency Response", "First Aid", "Team Leadership", "Environmental Care"}

\* views_edc.py / views.py: the lists of required payload fields
required_edc == <<"name", "contact_email", "connector_endpoint">>
required_legacy ==
    <<"name", "contact_email", "connector_endpoint", "certificate_thumbprint", "catalog_sample">>

----------------------------------------------------------------------------
(* Seed data and request inputs *)

VolIds == {1, 2}

\* "Al J G" (two spaces) and "Mad" (no space)
Name1 == <<"A", "l", " ", "J", " ", "G">>
Name2 == <<"M", "a", "d">>

\* The raw pieces of the POSTed "skills" field after split(","): each is
\* stripped and dropped when empty.
SkillInputs ==
    { <<>>, <<" First Aid">>, <<"First Aid", " ", "CPR">> }

\* POSTed "duration": absent/empty, or a decimal string
DurationInputs == {"", "60"}

Methods == {"GET", "POST"}

----------------------------------------------------------------------------
(* Pure helpers *)

\* str.strip() on the pieces used as inputs
Strip(s) ==
    CASE s = " First Aid" -> "First Aid"
      [] s = " "          -> ""
      [] OTHER            -> s

\* int(s) on the decimal strings used as inputs
ParseInt(s) ==
    CASE s = "60"  -> 60
      [] s = "0"   -> 0
      [] s = "-1"  -> 0 - 1
      [] s = "100" -> 100
      [] s = "40"  -> 40
      [] OTHER     -> 1

\* str.rstrip("/") on the endpoints used as inputs
RStripSlash(s) ==
    CASE s = "http://a/" -> "http://a"
      [] OTHER           -> s

\* _short_id(f"{kind}-{org.id}-{event.id}")
ShortId(kind, oid, eid) == <<kind, oid, eid>>

\* log_event(action, details, level): the row created
Entry(action, level, details) ==
    [action |-> action, level |-> level, details |-> details]

Actions(s) == [i \in 1..Len(s) |-> s[i].action]
Levels(s) == [i \in 1..Len(s) |-> s[i].level]

RECURSIVE Dedup(_)
\* event.skills.add(skill) for each parsed label, in order: a many-to-many
\* relation holds each skill once
Dedup(s) ==
    IF s = <<>> THEN <<>>
    ELSE LET rest == Dedup(SubSeq(s, 1, Len(s) - 1))
             x == s[Len(s)]
         IN IF \E i \in 1..Len(rest) : rest[i] = x THEN rest ELSE Append(rest, x)

\* [s.strip() for s in skills.split(",") if s.strip()]
ParseSkills(raw) ==
    LET stripped == [i \in 1..Len(raw) |-> Strip(raw[i])]
    IN Dedup(SelectSeq(stripped, LAMBDA x : x # ""))

EventIds == 1..Len(events)
OrgIds == 1..Len(orgs)

\* bool(org and org.member_ds)
IsMember(o) == o # NoOrg /\ orgs[o].member_ds

----------------------------------------------------------------------------
(* Initial states: the seeded database.  Organizations and volunteers are  *)
(* seed rows (no handler of the routed application creates a volunteer     *)
(* with an organization); there is no event yet.                           *)

SeedOrg(n, endpoint) ==
    [name |-> n, member_ds |-> FALSE, is_dsga |-> FALSE, contact_email |-> "",
     connector_endpoint |-> endpoint, certificate_thumbprint |-> <<>>]

SeedVol(n, o, mgr, sk) ==
    [name |-> n, organization |-> o, is_manager |-> mgr, skills |-> sk, events |-> {}]

\* Two organizations with the given connector endpoint, volunteer 1 in the
\* first, volunteer 2 in the second or in none.
Seeded(endpoint, o2, mgr, sk1, sk2) ==
    /\ orgs = <<SeedOrg("PlatformA", endpoint), SeedOrg("PlatformB", endpoint)>>
    /\ vols = [v \in VolIds |->
                 IF v = 1 THEN SeedVol(Name1, 1, mgr, sk1)
                 ELSE SeedVol(Name2, o2, mgr, sk2)]
    /\ events = <<>>
    /\ certs = <<>>
    /\ log = <<>>
    /\ response = [status |-> "none"]

----------------------------------------------------------------------------
(* services/dataspace.py *)

\* mutant of EdcInfo: the ids are derived from the connector endpoint too
EdcInfoPerEndpoint(oid, eid) ==
    [endpoint    |-> <<RStripSlash(orgs[oid].connector_endpoint), oid, eid>>,
     asset_id    |-> <<"asset", oid, eid, RStripSlash(orgs[oid].connector_endpoint)>>,
     contract_id |-> <<"offer", oid, eid, RStripSlash(orgs[oid].connector_endpoint)>>]

\* edc_register_asset_and_offer(org, event): the returned dict
EdcInfo(oid, eid) ==
    [endpoint    |-> <<RStripSlash(orgs[oid].connector_endpoint), oid, eid>>,
     asset_id    |-> ShortId("asset", oid, eid),
     contract_id |-> ShortId("offer", oid, eid)]

\* build_usage_policy(org, event): id, target and constraints
UsagePolicy(oid, eid, prioritize) ==
    [id |-> ShortId("policy", oid, eid),
     target |-> ShortId("asset", oid, eid),
     constraints |-> IF prioritize THEN {"purpose", "retention", "audience"}
                     ELSE {"purpose", "retention"}]

\* edc_register_asset_and_offer(org, event): the rows it logs
EdcLog(oid, eid, prioritize) ==
    << Entry("EDC.AssetRegistered", "INFO",
             [assetId |-> ShortId("asset", oid, eid), baseUrl |-> EdcInfo(oid, eid).endpoint]),
       Entry("Policy.UsageCreated", "INFO", UsagePolicy(oid, eid, prioritize)),
       Entry("EDC.ContractOfferPublished", "INFO",
             [offerId |-> ShortId("offer", oid, eid), assetId |-> ShortId("asset", oid, eid)]) >>

\* notify_trust_anchor_and_members(org, event, endpoint): the rows it logs
NotifyLog(oid, eid, endpoint) ==
    << Entry("DSGA.Notification", "INFO", [organization |-> oid, event |-> eid, endpoint |-> endpoint]),
       Entry("DSGA.Acknowledged", "INFO", [event |-> eid]) >>

----------------------------------------------------------------------------
(* views_ui.py: create_event *)

NewEvent(oid, duration, skills, expose, prioritize) ==
    [organization |-> oid,
     duration_hours |-> IF duration # "" THEN ParseInt(duration) ELSE 1,
     skills |-> ParseSkills(skills),
     isShared |-> expose, isFinished |-> FALSE, prioritize_local |-> prioritize,
     shared_since |-> IF expose THEN "now" ELSE "None",
     ds_endpoint |-> <<>>, ds_asset_id |-> <<>>, ds_contract_id |-> <<>>]

\* mutant of PolicyHintLog: the hint is logged for every published event
PolicyHintLogAlways(eid, prioritize) ==
    <<Entry("PolicyHint", "INFO", [event |-> eid])>>

\* 7) Policy hint if applicable
PolicyHintLog(eid, prioritize) ==
    IF prioritize THEN <<Entry("PolicyHint", "INFO", [event |-> eid])>> ELSE <<>>

\* the rows create_event logs itself once edc_register_asset_and_offer returned
PublishLog(oid, eid, info, prioritize) ==
    << Entry("EDC.AssetRegistered", "INFO", [assetId |-> info.asset_id, event |-> eid]),
       Entry("EDC.ContractOfferPublished", "INFO", [contractId |-> info.contract_id, event |-> eid]),
       Entry("EventSchemaMapped", "INFO", [event |-> eid]),
       Entry("EventShared.JSONLD", "INFO",
             [event |-> eid, organizer |-> oid,
              priorityPolicy |-> IF prioritize THEN "local-first" ELSE "open"]) >>
    \o NotifyLog(oid, eid, info.endpoint)
    \o PolicyHintLog(eid, prioritize)

\* mutant of PrivateLog: the policy hint is logged outside "if expose"
PrivateLogWithHint(eid, prioritize) ==
    <<Entry("EventPrivate", "INFO", [event |-> eid])>>
    \o (IF prioritize THEN <<Entry("PolicyHint", "INFO", [event |-> eid])>> ELSE <<>>)

\* the else branch of "if expose": the one row logged for a local-only event
PrivateLog(eid, prioritize) ==
    <<Entry("EventPrivate", "INFO", [event |-> eid])>>

CreateEvent(sess, method, duration, skills, expose, prioritize) ==
    LET v == vols[sess]
        oid == v.organization
        eid == Len(events) + 1
        ev == NewEvent(oid, duration, skills, expose, prioritize)
        created == Entry("EventCreated", "INFO", [event |-> eid, by |-> sess])
    IN
    IF ~v.is_manager THEN
        /\ response' = [status |-> "redirect", message |-> "Only managers can create events."]
        /\ log' = <<>>
        /\ UNCHANGED <<orgs, vols, events, certs>>
    ELSE IF method # "POST" THEN
        /\ response' = [status |-> "form"]
        /\ log' = <<>>
        /\ UNCHANGED <<orgs, vols, events, certs>>
    ELSE
        /\ Len(events) < MaxEvents
        /\ IF ~expose THEN
               /\ events' = Append(events, ev)
               /\ log' = <<created>> \o PrivateLog(eid, prioritize)
               /\ response' = [status |-> "redirect", message |-> "created"]
           ELSE IF oid = NoOrg THEN
               \* org.connector_endpoint on None raises: the row and the
               \* EventCreated entry are already committed
               /\ events' = Append(events, ev)
               /\ log' = <<created>>
               /\ response' = [status |-> "error"]
           ELSE
               LET info == EdcInfo(oid, eid) IN
               /\ events' = Append(events,
                      [ev EXCEPT !.ds_endpoint = info.endpoint,
                                 !.ds_asset_id = info.asset_id,
                                 !.ds_contract_id = info.contract_id])
               /\ log' = <<created>> \o EdcLog(oid, eid, prioritize)
                           \o PublishLog(oid, eid, info, prioritize)
               /\ response' = [status |-> "redirect", message |-> "created"]
        /\ UNCHANGED <<orgs, vols, certs>>

\* mutant of FinishEvent: the is_manager test is lost
FinishEventByAnyone(vid, eid) ==
    LET v == vols[vid] IN
    IF events[eid].organization # v.organization THEN
        /\ response' = [status |-> "not_found"]
        /\ log' = <<>>
        /\ UNCHANGED <<orgs, vols, events, certs>>
    ELSE
        /\ events' = [events EXCEPT ![eid].isFinished = TRUE]
        /\ log' = <<Entry("EventFinished", "INFO", [event |-> eid, by |-> vid])>>
        /\ response' = [status |-> "redirect", message |-> "finished"]
        /\ UNCHANGED <<orgs, vols, certs>>

\* finish_event (POST only: @require_POST)
FinishEvent(vid, eid) ==
    LET v == vols[vid] IN
    IF ~v.is_manager THEN
        /\ response' = [status |-> "redirect", message |-> "Only managers can finish events."]
        /\ log' = <<>>
        /\ UNCHANGED <<orgs, vols, events, certs>>
    ELSE IF events[eid].organization # v.organization THEN
        \* get_object_or_404(VolunteerEvent, pk=eid, organization=volunteer.organization)
        /\ response' = [status |-> "not_found"]
        /\ log' = <<>>
        /\ UNCHANGED <<orgs, vols, events, certs>>
    ELSE
        /\ events' = [events EXCEPT ![eid].isFinished = TRUE]
        /\ log' = <<Entry("EventFinished", "INFO", [event |-> eid, by |-> vid])>>
        /\ response' = [status |-> "redirect", message |-> "finished"]
        /\ UNCHANGED <<orgs, vols, certs>>

----------------------------------------------------------------------------
(* services/dataspace.py: the join and cancel narratives *)

\* index of the first space of a name, 0 when it has none
FirstSpace(name) ==
    IF \E i \in 1..Len(name) : name[i] = " "
    THEN CHOOSE i \in 1..Len(name) :
            /\ name[i] = " "
            /\ \A j \in 1..(i - 1) : name[j] # " "
    ELSE 0

\* parts = volunteer.name.split(" ", 1); parts[1][0] raises IndexError when
\* the name ends at its first space
DisplayNameFails(name) == FirstSpace(name) # 0 /\ FirstSpace(name) = Len(name)

\* f"{parts[0]} {parts[1][0]}." if len(parts) == 2 else volunteer.name
DisplayName(name) ==
    LET i == FirstSpace(name) IN
    IF i = 0 THEN name
    ELSE SubSeq(name, 1, i - 1) \o <<" ", name[i + 1], ".">>

\* mutant of RecordedLog: the event organization's record is written first
RecordedLogHostFirst(vid, eid, from, to, dn) ==
    << Entry("Participation.Recorded", "INFO",
             [system |-> orgs[to].name, volunteer |-> vid, name |-> dn, event |-> eid,
              status |-> "confirmed"]),
       Entry("Participation.Recorded", "INFO",
             [system |-> orgs[from].name, volunteer |-> vid, name |-> dn, event |-> eid,
              status |-> "joined"]) >>

\* Step 5 of log_volunteer_join: both sides record the participation
RecordedLog(vid, eid, from, to, dn) ==
    << Entry("Participation.Recorded", "INFO",
             [system |-> orgs[from].name, volunteer |-> vid, name |-> dn, event |-> eid,
              status |-> "joined"]),
       Entry("Participation.Recorded", "INFO",
             [system |-> orgs[to].name, volunteer |-> vid, name |-> dn, event |-> eid,
              status |-> "confirmed"]) >>

\* log_volunteer_join(volunteer, event, from_org, to_org, contract_id)
JoinLog(vid, eid, from, to, contract) ==
    LET head ==
          << Entry("EDC.CatalogRequest", "INFO", [from |-> orgs[from].name, to |-> orgs[to].name]),
             Entry("EDC.CatalogResponse", "INFO",
                   [from |-> orgs[to].name, to |-> orgs[from].name, event |-> eid,
                    time |-> events[eid].duration_hours, contract_offer |-> contract]),
             Entry("EDC.ContractNegotiated", "INFO",
                   [between |-> <<orgs[from].name, orgs[to].name>>, contract_id |-> contract,
                    purpose |-> "volunteer_matching"]) >>
        dn == DisplayName(vols[vid].name)
    IN IF DisplayNameFails(vols[vid].name) THEN head
       ELSE head \o
          << Entry("Participation.Requested", "INFO",
                   [from |-> orgs[from].name, to |-> orgs[to].name, contract_used |-> contract,
                    volunteer |-> vid, name |-> dn]) >>
          \o RecordedLog(vid, eid, from, to, dn)

\* mutant of RecordUpdatedLog: only the home organization updates its record
RecordUpdatedLogHomeOnly(vid, eid, from, to) ==
    << Entry("Participation.RecordUpdated", "INFO",
             [system |-> orgs[from].name, volunteer |-> vid, event |-> eid, status |-> "cancelled"]) >>

\* Step 2 of log_volunteer_cancel: both systems update their records
RecordUpdatedLog(vid, eid, from, to) ==
    << Entry("Participation.RecordUpdated", "INFO",
             [system |-> orgs[from].name, volunteer |-> vid, event |-> eid, status |-> "cancelled"]),
       Entry("Participation.RecordUpdated", "INFO",
             [system |-> orgs[to].name, volunteer |-> vid, event |-> eid, status |-> "cancelled"]) >>

\* log_volunteer_cancel(volunteer, event, from_org, to_org)
CancelLog(vid, eid, from, to) ==
    LET dn == DisplayName(vols[vid].name) IN
    IF DisplayNameFails(vols[vid].name) THEN <<>>
    ELSE
      << Entry("Participation.Cancelled", "INFO",
               [from |-> orgs[from].name, to |-> orgs[to].name, volunteer |-> vid, name |-> dn]) >>
      \o RecordUpdatedLog(vid, eid, from, to)

----------------------------------------------------------------------------
(* views_ui.py: register_event, unregister_event *)

\* mutant of CrossOrg: the "from_org != to_org" test is lost
CrossOrgSameAllowed(vid, eid) ==
    LET from == vols[vid].organization
        to == events[eid].organization
    IN /\ from # NoOrg
       /\ to # NoOrg
       /\ orgs[from].member_ds
       /\ orgs[to].member_ds

\* if from_org and to_org and from_org.member_ds and to_org.member_ds and from_org != to_org
CrossOrg(vid, eid) ==
    LET from == vols[vid].organization
        to == events[eid].organization
    IN /\ from # NoOrg
       /\ to # NoOrg
       /\ orgs[from].member_ds
       /\ orgs[to].member_ds
       /\ from # to

\* event.ds_contract_id or "no-contract"
ContractOf(eid) ==
    IF events[eid].ds_contract_id # <<>> THEN events[eid].ds_contract_id
    ELSE <<"no-contract">>

\* mutant of RegisterEvent: a failing narrative undoes the whole request
RegisterEventAtomic(vid, eid, method) ==
    IF method # "POST" THEN
        /\ response' = [status |-> "redirect", message |-> ""]
        /\ log' = <<>>
        /\ UNCHANGED <<orgs, vols, events, certs>>
    ELSE IF CrossOrg(vid, eid) /\ DisplayNameFails(vols[vid].name) THEN
        /\ response' = [status |-> "error"]
        /\ log' = <<>>
        /\ UNCHANGED <<orgs, vols, events, certs>>
    ELSE
        /\ vols' = [vols EXCEPT ![vid].events = @ \cup {eid}]
        /\ log' = IF CrossOrg(vid, eid)
                  THEN JoinLog(vid, eid, vols[vid].organization,
                               events[eid].organization, ContractOf(eid))
                  ELSE <<>>
        /\ response' = [status |-> "redirect", message |-> "registered"]
        /\ UNCHANGED <<orgs, events, certs>>

\* register_event; each write is committed as it is made (Django's
\* autocommit), so an exception leaves the earlier writes in place
RegisterEvent(vid, eid, method) ==
    IF method # "POST" THEN
        /\ response' = [status |-> "redirect", message |-> ""]
        /\ log' = <<>>
        /\ UNCHANGED <<orgs, vols, events, certs>>
    ELSE
        /\ vols' = [vols EXCEPT ![vid].events = @ \cup {eid}]
        /\ IF CrossOrg(vid, eid)
           THEN /\ log' = JoinLog(vid, eid, vols[vid].organization,
                                  events[eid].organization, ContractOf(eid))
                /\ response' = IF DisplayNameFails(vols[vid].name)
                               THEN [status |-> "error"]
                               ELSE [status |-> "redirect", message |-> "registered"]
           ELSE /\ log' = <<>>
                /\ response' = [status |-> "redirect", message |-> "registered"]
        /\ UNCHANGED <<orgs, events, certs>>

UnregisterEvent(vid, eid, method) ==
    IF method # "POST" THEN
        /\ response' = [status |-> "redirect", message |-> ""]
        /\ log' = <<>>
        /\ UNCHANGED <<orgs, vols, events, certs>>
    ELSE
        /\ vols' = [vols EXCEPT ![vid].events = @ \ {eid}]
        /\ IF CrossOrg(vid, eid)
           THEN /\ log' = CancelLog(vid, eid, vols[vid].organization,
                                    events[eid].organization)
                /\ response' = IF DisplayNameFails(vols[vid].name)
                               THEN [status |-> "error"]
                               ELSE [status |-> "redirect", message |-> "unregistered"]
           ELSE /\ log' = <<>>
                /\ response' = [status |-> "redirect", message |-> "unregistered"]
        /\ UNCHANGED <<orgs, events, certs>>

\* toggle_role
ToggleRole(v) ==
    /\ vols' = [vols EXCEPT ![v].is_manager = ~vols[v].is_manager]
    /\ log' = <<>>
    /\ response' = [status |-> "redirect", message |-> ""]
    /\ UNCHANGED <<orgs, events, certs>>

----------------------------------------------------------------------------
(* events.py: annotate_event; views_ui.py: dashboard_view, events_page *)

SeqRange(s) == {s[i] : i \in 1..Len(s)}

\* mutant of Annotate: can_register ignores the missing skills
AnnotateAlwaysEligible(eid, vid) ==
    LET event_skills == events[eid].skills
        volunteer_skills == vols[vid].skills
        missing == SelectSeq(event_skills, LAMBDA l : l \notin volunteer_skills)
    IN [id |-> eid,
        is_registered |-> eid \in vols[vid].events,
        skill_status |-> [l \in SeqRange(event_skills) |->
                            IF l \in volunteer_skills THEN "has" ELSE "missing"],
        missing_skills |-> missing,
        can_register |-> TRUE,
        is_federated |-> /\ vols[vid].organization # NoOrg
                         /\ events[eid].organization # vols[vid].organization]

\* annotate_event(event, volunteer, registered_ids)
Annotate(eid, vid) ==
    LET event_skills == events[eid].skills
        volunteer_skills == vols[vid].skills
        missing == SelectSeq(event_skills, LAMBDA l : l \notin volunteer_skills)
    IN [id |-> eid,
        is_registered |-> eid \in vols[vid].events,
        skill_status |-> [l \in SeqRange(event_skills) |->
                            IF l \in volunteer_skills THEN "has" ELSE "missing"],
        missing_skills |-> missing,
        can_register |-> Len(missing) = 0,
        is_federated |-> /\ vols[vid].organization # NoOrg
                         /\ events[eid].organization # vols[vid].organization]

\* org.events.all() if org else VolunteerEvent.objects.none()
OrgEvents(o) == {e \in EventIds : o # NoOrg /\ events[e].organization = o}

\* mutant of DsEvents: the organization__member_ds=True filter is lost
DsEventsAnyOrg(o) ==
    {e \in EventIds : /\ events[e].isShared
                      /\ events[e].organization # NoOrg
                      /\ events[e].organization # o}

\* VolunteerEvent.objects.filter(isShared=True, organization__member_ds=True)
\*     .exclude(organization=org)
DsEvents(o) ==
    {e \in EventIds : /\ events[e].isShared
                      /\ events[e].organization # NoOrg
                      /\ orgs[events[e].organization].member_ds
                      /\ events[e].organization # o}

\* all_events of dashboard_view and events_page, before annotation
AllEvents(vid) ==
    LET org == vols[vid].organization IN
    IF org # NoOrg /\ orgs[org].member_ds
    THEN OrgEvents(org) \cup DsEvents(org)
    ELSE OrgEvents(org)

RECURSIVE SumHours(_)
\* sum(e.duration_hours for e in ...)
SumHours(S) ==
    IF S = {} THEN 0
    ELSE LET e == CHOOSE x \in S : TRUE
         IN events[e].duration_hours + SumHours(S \ {e})

\* dashboard_view: the rendering context
DashboardView(vid) ==
    LET all == AllEvents(vid)
        ann == [e \in all |-> Annotate(e, vid)]
        registered == {e \in all : ann[e].is_registered}
        completed == {e \in registered : events[e].isFinished}
        hours == SumHours(completed)
    IN
    /\ response' = [status |-> "dashboard", volunteer |-> vid,
                    annotated |-> ann,
                    events_registered |-> {e \in registered : ~events[e].isFinished},
                    events_unregistered |->
                        {e \in all \ registered : ~events[e].isFinished},
                    events_completed |-> completed,
                    hours_volunteered |-> hours,
                    milestone_reached |-> hours >= 100]
    /\ log' = <<>>
    /\ UNCHANGED <<orgs, vols, events, certs>>

\* events_page: the annotated events that are not finished
EventsPage(vid) ==
    LET shown == {e \in AllEvents(vid) : ~events[e].isFinished} IN
    /\ response' = [status |-> "events", volunteer |-> vid,
                    annotated |-> [e \in shown |-> Annotate(e, vid)]]
    /\ log' = <<>>
    /\ UNCHANGED <<orgs, vols, events, certs>>

----------------------------------------------------------------------------
(* Onboarding: views_edc.py (routed) and views.py (five required fields) *)

\* an onboarding request body; an absent key and an empty value are both
\* falsy for payload.get(f) and are both written "" (<<>> for the list)
Payload(n, c, e, t, cs, pp) ==
    [name |-> n, contact_email |-> c, connector_endpoint |-> e,
     certificate_thumbprint |-> t, catalog_sample |-> cs, privacy_policy_url |-> pp]

\* not payload.get(f)
Falsy(p, f) == IF f = "catalog_sample" THEN p[f] = <<>> ELSE p[f] = ""

\* mutant of Missing: only the first missing field is reported
MissingFirstOnly(required, p) ==
    LET all == SelectSeq(required, LAMBDA f : Falsy(p, f))
    IN IF all = <<>> THEN <<>> ELSE <<all[1]>>

\* missing = [f for f in required if not payload.get(f)]
Missing(required, p) == SelectSeq(required, LAMBDA f : Falsy(p, f))

\* the GovernanceCheck row: WARN when no privacy_policy_url was supplied
GovernanceEntry(p) ==
    IF p.privacy_policy_url = ""
    THEN Entry("GovernanceCheck", "WARN", [privacy_policy |-> ""])
    ELSE Entry("GovernanceCheck", "INFO", [privacy_policy |-> p.privacy_policy_url])

\* hashlib.sha1(payload["name"].encode()).hexdigest()...
NameHash(n) == <<"sha1", n>>

\* views_edc.api_onboard_organization: the rows logged between the metadata
\* validation and the session lookup
EdcOnboardingLog(p) ==
    << Entry("MetadataValidation", "INFO", [name |-> p.name]),
       GovernanceEntry(p),
       Entry("VolunteerSchemaMapping", "INFO", [fields |-> 6]),
       Entry("VolunteerSchemaNormalized", "INFO", [type |-> "vms:Volunteer"]),
       Entry("ESCO_SkillMapping", "INFO", [labels |-> {"First Aid", "Team Leadership"}]),
       Entry("ContractTemplateGenerated", "INFO", [contract_id |-> NameHash(p.name)]),
       Entry("PolicyContractsNegotiated", "INFO", [audience |-> "dataspace-members"]),
       Entry("EDC.ContractNegotiated", "INFO",
             [between |-> <<p.name, "TrustAnchor">>, contract_id |-> NameHash(p.name)]),
       Entry("CertificateIssued", "INFO", [thumbprint |-> NameHash(p.name)]) >>

\* mutant of OnboardedOrg: the membership flag is not set
OnboardedOrgNotMember(o, p) ==
    [o EXCEPT !.contact_email = p.contact_email,
              !.connector_endpoint = p.connector_endpoint,
              !.certificate_thumbprint = NameHash(p.name)]

\* STEP 6: the volunteer's organization, persisted as a dataspace member
\* (metadata_json, which nothing reads, is not modelled)
OnboardedOrg(o, p) ==
    [o EXCEPT !.contact_email = p.contact_email,
              !.connector_endpoint = p.connector_endpoint,
              !.certificate_thumbprint = NameHash(p.name),
              !.member_ds = TRUE]

\* views_edc.api_onboard_organization; sess is the session's volunteer_id,
\* 0 when the request carries none
OnboardEdc(sess, method, p) ==
    LET received == Entry("OnboardingRequestReceived", "INFO", p)
        missing == Missing(required_edc, p)
    IN
    IF method # "POST" THEN
        /\ response' = [status |-> "bad_request"]
        /\ log' = <<>>
        /\ UNCHANGED <<orgs, vols, events, certs>>
    ELSE IF missing # <<>> THEN
        /\ response' = [status |-> "rejected", reason |-> <<"Missing fields", missing>>]
        /\ log' = <<received,
                    Entry("OnboardingRejected", "WARN",
                          [status |-> "rejected", reason |-> <<"Missing fields", missing>>])>>
        /\ UNCHANGED <<orgs, vols, events, certs>>
    ELSE IF sess = 0 THEN
        /\ response' = [status |-> "rejected", reason |-> <<"No volunteer session found">>]
        /\ log' = <<received>> \o EdcOnboardingLog(p)
        /\ UNCHANGED <<orgs, vols, events, certs>>
    ELSE IF vols[sess].organization = NoOrg THEN
        /\ response' = [status |-> "rejected", reason |-> <<"Volunteer has no organization">>]
        /\ log' = <<received>> \o EdcOnboardingLog(p)
        /\ UNCHANGED <<orgs, vols, events, certs>>
    ELSE
        LET oid == vols[sess].organization IN
        /\ orgs' = [orgs EXCEPT ![oid] = OnboardedOrg(orgs[oid], p)]
        /\ log' = <<received>> \o EdcOnboardingLog(p) \o
                  << Entry("OnboardingApproved", "INFO", [organization |-> oid]),
                     Entry("ExposedEndpoints", "INFO",
                           [base |-> RStripSlash(p.connector_endpoint), organization |-> oid,
                            events |-> {e \in EventIds : events[e].organization = oid}]) >>
        /\ response' = [status |-> "approved", organization_id |-> oid]
        /\ UNCHANGED <<vols, events, certs>>

RECURSIVE CountUnknown(_)
\* the unknowns counter of the skill-mapping loop over one list of skills
CountUnknown(skills) ==
    IF skills = <<>> THEN 0
    ELSE CountUnknown(Tail(skills))
         + (IF Head(skills) \in local_skill_mapping THEN 0 ELSE 1)

\* mutant of Unknowns: only the first item's skills are counted
UnknownsFirstItem(catalog) ==
    IF catalog = <<>> THEN 0 ELSE CountUnknown(Head(catalog))

RECURSIVE Unknowns(_)
\* for item in catalog: for s in item.get("skills", []): ... unknowns += 1
Unknowns(catalog) ==
    IF catalog = <<>> THEN 0
    ELSE CountUnknown(Head(catalog)) + Unknowns(Tail(catalog))

\* views.api_onboard_organization
OnboardLegacy(method, p) ==
    LET received == Entry("OnboardingRequestReceived", "INFO", p)
        missing == Missing(required_legacy, p)
        unknowns == Unknowns(p.catalog_sample)
        steps ==
          << received,
             Entry("MetadataValidation", "INFO", [name |-> p.name]),
             GovernanceEntry(p),
             Entry("VolunteerSchemaMapping", "INFO", [fields |-> 7]),
             Entry("SkillMapping", "INFO", [catalog |-> p.catalog_sample, unknown |-> unknowns]),
             Entry("ContractTemplateGenerated", "INFO", [template_id |-> NameHash(p.name)]) >>
    IN
    IF method # "POST" THEN
        /\ response' = [status |-> "bad_request"]
        /\ log' = <<>>
        /\ UNCHANGED <<orgs, vols, events, certs>>
    ELSE IF missing # <<>> THEN
        /\ response' = [status |-> "rejected", reason |-> <<"Missing fields", missing>>]
        /\ log' = <<received,
                    Entry("OnboardingRejected.MissingMetadata", "WARN",
                          [status |-> "rejected", reason |-> <<"Missing fields", missing>>])>>
        /\ UNCHANGED <<orgs, vols, events, certs>>
    ELSE IF unknowns > UnknownThreshold THEN
        /\ response' = [status |-> "rejected",
                        reason |-> <<"Too many unknown skills", unknowns>>]
        /\ log' = Append(steps,
                    Entry("OnboardingRejected.OntologyGap", "WARN",
                          [status |-> "rejected",
                           reason |-> <<"Too many unknown skills", unknowns>>]))
        /\ UNCHANGED <<orgs, vols, events, certs>>
    ELSE
        /\ Len(orgs) < MaxOrgs
        /\ orgs' = Append(orgs,
                     [name |-> p.name, member_ds |-> TRUE, is_dsga |-> FALSE,
                      contact_email |-> p.contact_email,
                      connector_endpoint |-> p.connector_endpoint,
                      certificate_thumbprint |-> <<p.certificate_thumbprint>>])
        /\ log' = Append(steps,
                    Entry("OnboardingApproved", "INFO", [organization |-> Len(orgs) + 1]))
        /\ response' = [status |-> "approved", organization_id |-> Len(orgs) + 1]
        /\ UNCHANGED <<vols, events, certs>>

\* views_edc.toggle_dataspace
ToggleDataspace(vid) ==
    LET oid == vols[vid].organization IN
    IF oid = NoOrg THEN
        /\ response' = [status |-> "error", reason |-> <<"Volunteer has no organization">>]
        /\ log' = <<>>
        /\ UNCHANGED <<orgs, vols, events, certs>>
    ELSE IF orgs[oid].member_ds THEN
        /\ orgs' = [orgs EXCEPT ![oid].member_ds = FALSE,
                                ![oid].certificate_thumbprint = <<>>]
        /\ log' = <<Entry("DataSpaceLeft", "INFO", [organization |-> oid])>>
        /\ response' = [status |-> "redirect", message |-> "dashboard"]
        /\ UNCHANGED <<vols, events, certs>>
    ELSE
        /\ response' = [status |-> "redirect", message |-> "onboard"]
        /\ log' = <<>>
        /\ UNCHANGED <<orgs, vols, events, certs>>

----------------------------------------------------------------------------
(* views_ui.py: the certificate context and the certificate request       *)

\* views_ui.py: MILESTONE_HOURS = 100
MILESTONE_HOURS == 100

\* str.lower() on the labels used as inputs (label__iexact="First Aid")
Lower(l) ==
    CASE l = "First Aid" -> "first aid"
      [] l = "CPR"       -> "cpr"
      [] OTHER           -> l

\* the rows of the Skill table
SkillTable ==
    UNION {vols[v].skills : v \in VolIds}
    \cup UNION {SeqRange(events[e].skills) : e \in EventIds}

\* Skill.objects.filter(label__iexact="First Aid").first(): the row, if any
\* (the inputs hold one spelling of the label, so at most one row matches)
FirstAidSkill == {l \in SkillTable : Lower(l) = "first aid"}

\* v.organization.name if v.organization else None (None is "", falsy as it)
HomeOrgName(vid) ==
    IF vols[vid].organization # NoOrg THEN orgs[vols[vid].organization].name ELSE ""

\* e.organization.name if e.organization else "Unknown"
Provider(e) ==
    IF events[e].organization # NoOrg THEN orgs[events[e].organization].name
    ELSE "Unknown"

\* the events of a queryset, in primary-key order
InPkOrder(ids) == SelectSeq([i \in 1..Len(events) |-> i], LAMBDA i : i \in ids)

\* mutant of ItemHours: the hours the client supplied are trusted
ItemHoursFromClient(e, supplied) == supplied

\* hrs = int(e.duration_hours): the stored duration, whatever the item says
ItemHours(e, supplied) == events[e].duration_hours

\* the hours the request's items supply for event e (the first item naming it)
SuppliedHours(items, e) ==
    LET i == CHOOSE i \in 1..Len(items) :
                /\ items[i].id = e
                /\ \A j \in 1..(i - 1) : items[j].id # e
    IN items[i].hours

\* cert_items: one record per selected event
CertItems(items, ids) ==
    LET order == InPkOrder(ids) IN
    [k \in 1..Len(order) |->
        [event_id |-> order[k],
         hours |-> ItemHours(order[k], SuppliedHours(items, order[k])),
         provider |-> Provider(order[k]),
         skills |-> events[order[k]].skills]]

RECURSIVE TotalHours(_)
\* total += hrs
TotalHours(its) ==
    IF its = <<>> THEN 0 ELSE its[1].hours + TotalHours(Tail(its))

\* hours of the items whose provider is the home organization
HomeHours(its, home) ==
    TotalHours(SelectSeq(its, LAMBDA it :
        /\ home # ""
        /\ events[it.event_id].organization # NoOrg
        /\ it.provider = home))

\* hours of the items whose event requires the First Aid row
FirstAidHours(its) ==
    TotalHours(SelectSeq(its, LAMBDA it :
        \E l \in FirstAidSkill : l \in SeqRange(it.skills)))

\* mutant of BelowMilestone: exactly 100 hours are not enough
BelowMilestoneInclusive(total) == total <= MILESTONE_HOURS

\* if total < MILESTONE_HOURS
BelowMilestone(total) == total < MILESTONE_HOURS

\* sorted(...) of the provider names the model uses
ProviderOrder == <<"NewOrg", "PlatformA", "PlatformB", "Unknown">>

\* providers = sorted({ci["provider"] for ci in cert_items if ci["provider"]})
Providers(its) ==
    SelectSeq(ProviderOrder,
              LAMBDA n : n # "" /\ \E k \in 1..Len(its) : its[k].provider = n)

RECURSIVE AttestationLogWithHome(_, _, _, _)
\* mutant of AttestationLog: the home organization is asked to attest too
AttestationLogWithHome(vid, providers, home, contract) ==
    IF providers = <<>> THEN <<>>
    ELSE << Entry("EDC.AttestationRequested", "INFO",
                  [provider |-> providers[1], volunteer |-> vid]),
            Entry("EDC.AttestationReceived", "INFO",
                  [provider |-> providers[1], volunteer |-> vid,
                   contract |-> contract]) >>
         \o AttestationLogWithHome(vid, Tail(providers), home, contract)

RECURSIVE AttestationLog(_, _, _, _)
\* for p in providers: if home_org and p == home_org: continue; two rows
AttestationLog(vid, providers, home, contract) ==
    IF providers = <<>> THEN <<>>
    ELSE (IF home # "" /\ providers[1] = home THEN <<>>
          ELSE << Entry("EDC.AttestationRequested", "INFO",
                        [provider |-> providers[1], volunteer |-> vid]),
                  Entry("EDC.AttestationReceived", "INFO",
                        [provider |-> providers[1], volunteer |-> vid,
                         contract |-> contract]) >>)
         \o AttestationLog(vid, Tail(providers), home, contract)

\* mutant of Issuer: the home organization is preferred
IssuerHomeFirst(vid) ==
    IF vols[vid].organization # NoOrg THEN vols[vid].organization
    ELSE IF \E o \in OrgIds : orgs[o].is_dsga
         THEN CHOOSE o \in OrgIds :
                 orgs[o].is_dsga /\ \A q \in OrgIds : orgs[q].is_dsga => o <= q
         ELSE NoOrg

\* Organization.objects.filter(is_dsga=True).first() or v.organization
Issuer(vid) ==
    IF \E o \in OrgIds : orgs[o].is_dsga
    THEN CHOOSE o \in OrgIds :
            orgs[o].is_dsga /\ \A q \in OrgIds : orgs[q].is_dsga => o <= q
    ELSE vols[vid].organization

\* mutant of Proof: the digest covers the certificate's serial number too
ProofWithSerial(its) == <<"sha1", its, Len(certs) + 1>>

\* hashlib.sha1(json.dumps(cert_items, sort_keys=True).encode()).hexdigest()
Proof(its) == <<"sha1", its>>

\* api_certificate_request; vid is the payload's volunteer_id (0 when absent)
\* and items its list of {id, hours}
CertificateRequest(vid, items) ==
    LET named == {items[i].id : i \in 1..Len(items)}
        ids == named \cap EventIds
        its == CertItems(items, ids)
        total == TotalHours(its)
        home == HomeOrgName(vid)
        contract == <<"credential", vid, total>>
        issuer == Issuer(vid)
        cid == Len(certs) + 1
    IN
    IF vid = 0 THEN
        /\ response' = [status |-> "bad_request", reason |-> "Missing volunteer_id"]
        /\ log' = <<>>
        /\ UNCHANGED <<orgs, vols, events, certs>>
    ELSE IF Cardinality(ids) # Len(items) THEN
        \* ev_qs.count() != len(event_ids): an unknown or a repeated id
        /\ response' = [status |-> "bad_request",
                        reason |-> "Some selected activities not found"]
        /\ log' = <<>>
        /\ UNCHANGED <<orgs, vols, events, certs>>
    ELSE IF BelowMilestone(total) THEN
        /\ response' = [status |-> "rejected",
                        reason |-> <<"Need", MILESTONE_HOURS, "provided", total>>]
        /\ log' = <<>>
        /\ UNCHANGED <<orgs, vols, events, certs>>
    ELSE
        /\ Len(certs) < MaxCerts
        /\ certs' = Append(certs,
                      [volunteer |-> vid, issuer |-> issuer, items |-> its,
                       proof_hash |-> Proof(its), skills |-> FirstAidSkill])
        /\ log' = << Entry("EDC.CredentialRequest", "INFO",
                           [volunteer |-> vid, via |-> home, activities |-> Len(its)]),
                     Entry("EDC.ContractNegotiated", "INFO",
                           [between |-> <<IF home # "" THEN home ELSE "Unknown",
                                          "CredentialIssuer">>,
                            contract_id |-> contract,
                            purpose |-> "credential_issuance"]) >>
                   \o AttestationLog(vid, Providers(its), home, contract)
                   \o << Entry("Credential.Issued", "INFO",
                               [certificate |-> cid, volunteer |-> vid,
                                by |-> IF issuer # NoOrg THEN orgs[issuer].name
                                       ELSE "Unknown"]),
                         Entry("EDC.CredentialDelivered", "INFO",
                               [certificate |-> cid, holder |-> home]) >>
        /\ response' = [status |-> "issued", certificate |-> cid,
                        total |-> total,
                        fromHomeOrg |-> HomeHours(its, home),
                        fromOtherOrgs |-> total - HomeHours(its, home),
                        recognitions |-> IF FirstAidHours(its) >= MILESTONE_HOURS
                                         THEN {"First Aid"} ELSE {},
                        contract_id |-> contract]
        /\ UNCHANGED <<orgs, vols, events>>

RECURSIVE SortDesc(_)
\* sorted(events, key=lambda e: int(e["hours"]), reverse=True): stable, equal
\* hours keep their order
SortDesc(acts) ==
    IF acts = <<>> THEN <<>>
    ELSE LET rest == SortDesc(SubSeq(acts, 1, Len(acts) - 1))
             x == acts[Len(acts)]
             n == Cardinality({i \in 1..Len(rest) : rest[i].hours >= x.hours})
         IN SubSeq(rest, 1, n) \o <<x>> \o SubSeq(rest, n + 1, Len(rest))

\* mutant of Ordered: the activities are taken in the order given
OrderedAsGiven(acts) == acts

\* ordered = sorted(...)
Ordered(acts) == SortDesc(acts)

RECURSIVE GreedyPastTarget(_, _, _, _)
\* mutant of Greedy: the loop stops only once the target is exceeded
GreedyPastTarget(target, ordered, out, total) ==
    IF ordered = <<>> \/ total > target THEN [ids |-> out, total |-> total]
    ELSE GreedyPastTarget(target, Tail(ordered), out \cup {ordered[1].id},
                          total + ordered[1].hours)

RECURSIVE Greedy(_, _, _, _)
\* for e in ordered: if total >= target: break; out.append(e["id"]); total += ...
Greedy(target, ordered, out, total) ==
    IF ordered = <<>> \/ total >= target THEN [ids |-> out, total |-> total]
    ELSE Greedy(target, Tail(ordered), out \cup {ordered[1].id},
                total + ordered[1].hours)

\* _minimal_subset_to_reach(target, events)
MinimalSubsetToReach(target, acts) == Greedy(target, Ordered(acts), {}, 0)

\* api_certificate_context
CertificateContext(vid) ==
    LET completed == InPkOrder({e \in vols[vid].events : events[e].isFinished})
        home == HomeOrgName(vid)
        acts == [k \in 1..Len(completed) |->
                    [id |-> completed[k],
                     hours |-> events[completed[k]].duration_hours,
                     provider |-> Provider(completed[k])]]
        hours_total == TotalHours(acts)
        hours_home == TotalHours(SelectSeq(acts, LAMBDA a :
                          /\ home # ""
                          /\ events[a.id].organization # NoOrg
                          /\ a.provider = home))
        contrib == IF hours_total >= MILESTONE_HOURS
                   THEN MinimalSubsetToReach(MILESTONE_HOURS, acts)
                   ELSE [ids |-> {}, total |-> 0]
    IN
    /\ response' = [status |-> "certificate_context", volunteer |-> vid,
                    total_hours |-> hours_total,
                    home |-> hours_home, remote |-> hours_total - hours_home,
                    eligible |-> hours_total >= MILESTONE_HOURS,
                    contrib_sum |-> contrib.total,
                    activities |-> [k \in 1..Len(acts) |->
                        [id |-> acts[k].id, hours |-> acts[k].hours,
                         contributes |-> acts[k].id \in contrib.ids]]]
    /\ log' = <<>>
    /\ UNCHANGED <<orgs, vols, events, certs>>

----------------------------------------------------------------------------
(* Specifications.  Each draws the request inputs its claims are about.    *)

FullPayload == Payload("NewOrg", "c@x", "http://a/", "AB", << <<"CPR">> >>, "http://p")

(* Spec: visibility and the join / cancel narratives.  Both volunteers are *)
(* managers, the organizations have a connector endpoint and join and      *)
(* leave the dataspace through the routed handlers.                        *)
Init ==
    \E o2 \in {2, NoOrg} : Seeded("http://a/", o2, TRUE, {"First Aid"}, {})

Next ==
    \/ \E sess \in VolIds, x \in BOOLEAN : CreateEvent(sess, "POST", "", <<>>, x, FALSE)
    \/ \E v \in VolIds, e \in EventIds : FinishEvent(v, e)
    \/ \E v \in VolIds, e \in EventIds, m \in Methods : RegisterEvent(v, e, m)
    \/ \E v \in VolIds, e \in EventIds, m \in Methods : UnregisterEvent(v, e, m)
    \/ \E sess \in VolIds : OnboardEdc(sess, "POST", FullPayload)
    \/ \E v \in VolIds : ToggleDataspace(v)
    \/ \E v \in VolIds : DashboardView(v)

Spec == Init /\ [][Next]_vars

(* SpecPublish: event creation and publication.  The organizations start   *)
(* without a connector endpoint and get one by onboarding; volunteers      *)
(* become managers through toggle_role.                                    *)
InitPublish ==
    \E o2 \in {2, NoOrg} : Seeded("", o2, FALSE, {"First Aid"}, {})

NextPublish ==
    \/ \E sess \in VolIds, m \in Methods, x \in BOOLEAN, p \in BOOLEAN :
          CreateEvent(sess, m, "", <<>>, x, p)
    \/ \E sess \in VolIds : OnboardEdc(sess, "POST", FullPayload)
    \/ \E v \in VolIds : ToggleRole(v)

SpecPublish == InitPublish /\ [][NextPublish]_vars

(* SpecAnnotate: the annotation of events with the volunteer's skill gaps. *)
(* The volunteers' skills are drawn at the start, the events' skills come  *)
(* from the creation form.                                                 *)
SkillLabels == {"First Aid", "CPR"}

InitAnnotate ==
    \E sk1 \in SUBSET SkillLabels, sk2 \in {{}, {"CPR"}} :
        Seeded("http://a/", 2, TRUE, sk1, sk2)

NextAnnotate ==
    \/ \E sess \in VolIds, s \in SkillInputs : CreateEvent(sess, "POST", "", s, TRUE, FALSE)
    \/ \E sess \in VolIds : OnboardEdc(sess, "POST", FullPayload)
    \/ \E v \in VolIds : DashboardView(v)
    \/ \E v \in VolIds : EventsPage(v)

SpecAnnotate == InitAnnotate /\ [][NextAnnotate]_vars

(* SpecOnboard: the two onboarding handlers and leaving the dataspace.     *)
(* Volunteer 1 belongs to the first organization, volunteer 2 to none.     *)
CatalogSkills == {"CPR", "Juggling"}

\* the skills lists of a catalog item
Items == UNION {[1..n -> CatalogSkills] : n \in 0..MaxCatalogSkills}

RECURSIVE TotalSkills(_)
TotalSkills(cs) == IF cs = <<>> THEN 0 ELSE Len(Head(cs)) + TotalSkills(Tail(cs))

\* the catalog samples of one or two items
Catalogs ==
    {cs \in UNION {[1..n -> Items] : n \in 1..2} : TotalSkills(cs) <= MaxCatalogSkills}

\* every combination of present and absent (or empty) fields
PresencePayloads ==
    {Payload(n, c, e, t, cs, pp) :
        n \in {"", "NewOrg"}, c \in {"", "c@x"}, e \in {"", "http://a/"},
        t \in {"", "AB"}, cs \in {<<>>, << <<"CPR">> >>}, pp \in {"", "http://p"}}

\* the same over the fields the routed handler reads
EdcPayloads == {p \in PresencePayloads :
                  p.certificate_thumbprint = "AB" /\ p.catalog_sample # <<>>}

\* complete bodies with every catalog sample
CatalogPayloads == {[FullPayload EXCEPT !.catalog_sample = cs] : cs \in Catalogs}

\* the bodies sent to the five-field handler
LegacyPayloads == PresencePayloads \cup CatalogPayloads

InitOnboard == Seeded("", NoOrg, FALSE, {"First Aid"}, {})

NextOnboard ==
    \/ \E sess \in VolIds \cup {0}, p \in EdcPayloads : OnboardEdc(sess, "POST", p)
    \/ OnboardEdc(0, "GET", FullPayload)
    \/ \E p \in LegacyPayloads : OnboardLegacy("POST", p)
    \/ OnboardLegacy("GET", FullPayload)
    \/ \E v \in VolIds : ToggleDataspace(v)

SpecOnboard == InitOnboard /\ [][NextOnboard]_vars

(* SpecCertificate: certificate requests over events created by the two    *)
(* managers; organizations flagged as governance authority are drawn at    *)
(* the start (no handler sets the flag).                                   *)
CertDurations == {"40", "100"}

\* the hours a client may claim for an item
ClaimedHours == {1, 100}

\* request items: every id, known or not, with one claimed number of hours
ItemLists ==
    {[i \in 1..Len(ids) |-> [id |-> ids[i], hours |-> h]] :
        ids \in UNION {[1..m -> 1..(MaxEvents + 1)] : m \in 0..MaxItems},
        h \in ClaimedHours}

\* two manager volunteers, the second with or without organization; the
\* organizations in dsga are flagged as governance authority
SeededCertificate(o2, dsga) ==
        /\ orgs = [o \in 1..2 |->
                     [SeedOrg(IF o = 1 THEN "PlatformA" ELSE "PlatformB", "http://a/")
                        EXCEPT !.is_dsga = (o \in dsga)]]
        /\ vols = [v \in VolIds |->
                     IF v = 1 THEN SeedVol(Name1, 1, TRUE, {})
                     ELSE SeedVol(Name2, o2, TRUE, {})]
        /\ events = <<>>
        /\ certs = <<>>
        /\ log = <<>>
        /\ response = [status |-> "none"]

InitCertificate ==
    \E o2 \in {2, NoOrg}, dsga \in {{}, {2}, {1, 2}} : SeededCertificate(o2, dsga)

NextCertificate ==
    \/ \E sess \in VolIds, d \in CertDurations, s \in {<<>>, <<"First Aid">>} :
          CreateEvent(sess, "POST", d, s, FALSE, FALSE)
    \/ \E vid \in VolIds \cup {0}, items \in ItemLists : CertificateRequest(vid, items)

SpecCertificate == InitCertificate /\ [][NextCertificate]_vars

(* SpecMilestone: the milestone decision of the certificate request, over  *)
(* events without skills and no governance authority.                      *)
InitMilestone == \E o2 \in {2, NoOrg} : SeededCertificate(o2, {})

NextMilestone ==
    \/ \E sess \in VolIds, d \in CertDurations :
          CreateEvent(sess, "POST", d, <<>>, FALSE, FALSE)
    \/ \E vid \in VolIds, items \in ItemLists : CertificateRequest(vid, items)
    \/ CertificateRequest(0, <<>>)

SpecMilestone == InitMilestone /\ [][NextMilestone]_vars

(* SpecNames: the join and cancel narratives over the volunteer names the  *)
(* name column (CharField, max_length 250) can hold: several words, one    *)
(* word, a word followed by a space, and two spaces in a row.  Both        *)
(* organizations are dataspace members.                                    *)
NameInputs == {Name1, Name2, <<"A", "l", " ">>, <<"A", " ", " ", "J">>}

InitNames ==
    \E n1 \in NameInputs, n2 \in NameInputs :
        /\ orgs = [o \in 1..2 |->
                     [SeedOrg(IF o = 1 THEN "PlatformA" ELSE "PlatformB", "http://a/")
                        EXCEPT !.member_ds = TRUE]]
        /\ vols = [v \in VolIds |->
                     IF v = 1 THEN SeedVol(n1, 1, TRUE, {}) ELSE SeedVol(n2, 2, TRUE, {})]
        /\ events = <<>>
        /\ certs = <<>>
        /\ log = <<>>
        /\ response = [status |-> "none"]

NextNames ==
    \/ \E sess \in VolIds : CreateEvent(sess, "POST", "", <<>>, TRUE, FALSE)
    \/ \E v \in VolIds, e \in EventIds : RegisterEvent(v, e, "POST")
    \/ \E v \in VolIds, e \in EventIds : UnregisterEvent(v, e, "POST")

SpecNames == InitNames /\ [][NextNames]_vars

(* SpecAudience: event creation with the "expose" and "prioritize" boxes   *)
(* and the two listings, between two dataspace members.                    *)
InitAudience ==
    /\ orgs = [o \in 1..2 |->
                 [SeedOrg(IF o = 1 THEN "PlatformA" ELSE "PlatformB", "http://a/")
                    EXCEPT !.member_ds = TRUE]]
    /\ vols = [v \in VolIds |->
                 IF v = 1 THEN SeedVol(Name1, 1, TRUE, {}) ELSE SeedVol(Name2, 2, TRUE, {})]
    /\ events = <<>>
    /\ certs = <<>>
    /\ log = <<>>
    /\ response = [status |-> "none"]

NextAudience ==
    \/ \E sess \in VolIds, x \in BOOLEAN, p \in BOOLEAN :
          CreateEvent(sess, "POST", "", <<>>, x, p)
    \/ \E v \in VolIds : DashboardView(v)
    \/ \E v \in VolIds : EventsPage(v)
    \/ \E v \in VolIds : ToggleDataspace(v)

SpecAudience == InitAudience /\ [][NextAudience]_vars

(* SpecDuration: the "duration" field of the creation form: absent, zero,  *)
(* negative or positive.                                                   *)
DurationFields == {"", "0", "-1", "60"}

InitDuration == \E o2 \in {2, NoOrg} : Seeded("http://a/", o2, FALSE, {}, {})

NextDuration ==
    \/ \E sess \in VolIds, d \in DurationFields :
          CreateEvent(sess, "POST", d, <<>>, FALSE, FALSE)
    \/ \E v \in VolIds : ToggleRole(v)

SpecDuration == InitDuration /\ [][NextDuration]_vars

(* SpecLifecycle: creation, finishing and registration by volunteers who   *)
(* gain and lose the manager role.                                         *)
InitLifecycle == \E o2 \in {2, NoOrg} : Seeded("http://a/", o2, FALSE, {}, {})

NextLifecycle ==
    \/ \E sess \in VolIds, m \in Methods, x \in BOOLEAN :
          CreateEvent(sess, m, "", <<>>, x, FALSE)
    \/ \E v \in VolIds, e \in EventIds : FinishEvent(v, e)
    \/ \E v \in VolIds, e \in EventIds : RegisterEvent(v, e, "POST")
    \/ \E v \in VolIds : ToggleRole(v)

SpecLifecycle == InitLifecycle /\ [][NextLifecycle]_vars

(* SpecContext: the certificate context over drawn histories: volunteer 1  *)
(* has finished up to MaxActivities events of the first organization.      *)
ActivityHours == {10, 15, 20, 30, 40}

InitContext ==
    \E n \in 0..MaxActivities : \E hs \in [1..n -> ActivityHours] :
        /\ orgs = <<SeedOrg("PlatformA", "http://a/"), SeedOrg("PlatformB", "http://a/")>>
        /\ events = [i \in 1..n |->
                       [NewEvent(1, "", <<>>, FALSE, FALSE)
                          EXCEPT !.duration_hours = hs[i], !.isFinished = TRUE]]
        /\ vols = [v \in VolIds |->
                     IF v = 1 THEN [SeedVol(Name1, 1, TRUE, {}) EXCEPT !.events = 1..n]
                     ELSE SeedVol(Name2, 2, TRUE, {})]
        /\ certs = <<>>
        /\ log = <<>>
        /\ response = [status |-> "none"]

NextContext ==
    \/ \E v \in VolIds : CertificateContext(v)
    \/ \E v \in VolIds : DashboardView(v)

SpecContext == InitContext /\ [][NextContext]_vars

----------------------------------------------------------------------------
(* Properties of dashboard_view and annotate_event                         *)

\* the candidate set as the specification words it
ExpectedCandidates(v) ==
    LET O == vols[v].organization
        own == {e \in EventIds : events[e].organization = O}
        foreign == {e \in EventIds :
                      /\ events[e].isShared
                      /\ events[e].organization \in OrgIds \ {O}
                      /\ orgs[events[e].organization].member_ds}
    IN IF O = NoOrg THEN {}
       ELSE IF orgs[O].member_ds THEN own \cup foreign
       ELSE own

\* C1: in every reachable state the candidate event set of dashboard_view for
\* a volunteer with home organization O is O's events plus, only if O is a
\* dataspace member, every shared event of another member organization; it
\* is O's events alone when O is not a member and empty without organization.
CandidateSetIsOwnPlusFederated ==
    /\ \A v \in VolIds : AllEvents(v) = ExpectedCandidates(v)
    /\ response.status = "dashboard" =>
          DOMAIN response.annotated = ExpectedCandidates(response.volunteer)

\* a dashboard of a member organization's volunteer showing an own event and
\* a shared event of another member organization
DashboardShowsOwnAndFederated ==
    /\ response.status = "dashboard"
    /\ IsMember(vols[response.volunteer].organization)
    /\ \E e \in DOMAIN response.annotated :
          events[e].organization = vols[response.volunteer].organization
    /\ \E e \in DOMAIN response.annotated :
          events[e].organization # vols[response.volunteer].organization

\* the annotations of the last rendered page
Annotated == IF response.status \in {"dashboard", "events"}
             THEN response.annotated ELSE <<>>

\* annotation a is what the specification asks for event e and volunteer v
WellAnnotated(a, e, v) ==
    LET required == SeqRange(events[e].skills)
        have == vols[v].skills
    IN /\ a.can_register <=> (a.missing_skills = <<>>)
       /\ SeqRange(a.missing_skills) = required \ have
       /\ Len(a.missing_skills) = Cardinality(required \ have)
       /\ DOMAIN a.skill_status = required
       /\ \A l \in required :
             a.skill_status[l] = (IF l \in have THEN "has" ELSE "missing")

\* C2: annotate_event sets can_register to true if and only if
\* missing_skills is empty, and missing_skills holds exactly the labels of
\* the event's required skills the volunteer lacks, each required skill
\* being marked "has" or "missing" accordingly.
EligibleIffNothingMissing ==
    /\ \A v \in VolIds, e \in EventIds : WellAnnotated(Annotate(e, v), e, v)
    /\ \A e \in DOMAIN Annotated : WellAnnotated(Annotated[e], e, response.volunteer)

\* a page with an event of which the volunteer has one skill and lacks another
AnnotatedWithGap ==
    \E e \in DOMAIN Annotated :
        /\ ~Annotated[e].can_register
        /\ Len(Annotated[e].missing_skills) = 1
        /\ \E l \in DOMAIN Annotated[e].skill_status :
              Annotated[e].skill_status[l] = "has"

----------------------------------------------------------------------------
(* Properties of the join and cancel narratives                            *)

\* both organizations exist, are dataspace members and differ
FederatedPair(v, e) ==
    /\ vols[v].organization \in OrgIds
    /\ events[e].organization \in OrgIds
    /\ orgs[vols[v].organization].member_ds
    /\ orgs[events[e].organization].member_ds
    /\ vols[v].organization # events[e].organization

\* C3: a register_event or unregister_event request appends log entries only
\* when the volunteer's and the event's organization both exist, are both
\* dataspace members at that time and differ; otherwise it appends none.
NarrativeOnlyAcrossMembers ==
    [][\A v \in VolIds, e \in EventIds, m \in Methods :
          (RegisterEvent(v, e, m) \/ UnregisterEvent(v, e, m)) =>
              /\ log' # <<>> => (m = "POST" /\ FederatedPair(v, e))
              /\ ~FederatedPair(v, e) => log' = <<>>]_vars

\* a registration that logged a narrative
RegisteredWithNarrative ==
    /\ response.status = "redirect"
    /\ response.message = "registered"
    /\ Len(log) > 0

ReducedName(v) == IF v = 1 THEN <<"A", "l", " ", "J", ".">> ELSE Name2

----------------------------------------------------------------------------
(* Properties of create_event                                              *)

\* create_event as a manager's POST with the given checkboxes
ManagerCreates(sess, expose, prioritize) ==
    /\ vols[sess].is_manager
    /\ CreateEvent(sess, "POST", "", <<>>, expose, prioritize)

\* C6 as stated: creating a shared event appends, after EventCreated, exactly
\* one entry per publication step: asset registered, contract offer
\* published, EventSchemaMapped, EventShared.JSONLD, DSGA.Notification,
\* DSGA.Acknowledged, and PolicyHint if and only if prioritizeLocal is set.
PublishAppendsOneEntryPerStep ==
    [][\A sess \in VolIds, p \in BOOLEAN :
          ManagerCreates(sess, TRUE, p) =>
              Actions(log') =
                  <<"EventCreated", "EDC.AssetRegistered",
                    "EDC.ContractOfferPublished", "EventSchemaMapped",
                    "EventShared.JSONLD", "DSGA.Notification", "DSGA.Acknowledged">>
                  \o (IF p THEN <<"PolicyHint">> ELSE <<>>)]_vars

\* C6: creating a shared event as a manager with an organization appends,
\* after EventCreated: EDC.AssetRegistered, Policy.UsageCreated and
\* EDC.ContractOfferPublished (the connector registration), then
\* EDC.AssetRegistered and EDC.ContractOfferPublished again (the summaries),
\* EventSchemaMapped, EventShared.JSONLD, DSGA.Notification,
\* DSGA.Acknowledged, and PolicyHint if and only if prioritizeLocal is set.
\* A manager without organization gets EventCreated alone: the request
\* fails at the connector registration with the event already stored.
PublishAppendsRegistrationAndSummaries ==
    [][\A sess \in VolIds, p \in BOOLEAN :
          ManagerCreates(sess, TRUE, p) =>
              IF vols[sess].organization # NoOrg
              THEN Actions(log') =
                      <<"EventCreated", "EDC.AssetRegistered", "Policy.UsageCreated",
                        "EDC.ContractOfferPublished", "EDC.AssetRegistered",
                        "EDC.ContractOfferPublished", "EventSchemaMapped",
                        "EventShared.JSONLD", "DSGA.Notification",
                        "DSGA.Acknowledged">>
                      \o (IF p THEN <<"PolicyHint">> ELSE <<>>)
              ELSE /\ Actions(log') = <<"EventCreated">>
                   /\ response'.status = "error"
                   /\ Len(events') = Len(events) + 1]_vars

\* a published event with the local-first option: eleven entries
PublishedWithPolicyHint ==
    /\ Len(log) = 11
    /\ log[1].action = "EventCreated"
    /\ log[3].action = "Policy.UsageCreated"
    /\ log[11].action = "PolicyHint"
    /\ events[Len(events)].isShared

\* C7: creating an event without the share option appends exactly two log
\* entries, EventCreated then EventPrivate, and performs no federation
\* step, even when prioritizeLocal is set.
PrivateAppendsTwoEntries ==
    [][\A sess \in VolIds, p \in BOOLEAN :
          ManagerCreates(sess, FALSE, p) =>
              /\ Actions(log') = <<"EventCreated", "EventPrivate">>
              /\ Len(events') = Len(events) + 1
              /\ ~events'[Len(events')].isShared
              /\ events'[Len(events')].ds_endpoint = <<>>
              /\ events'[Len(events')].ds_asset_id = <<>>
              /\ events'[Len(events')].ds_contract_id = <<>>
              /\ events'[Len(events')].shared_since = "None"]_vars

\* a private event created with the local-first option
PrivateWithPrioritize ==
    /\ Len(log) = 2
    /\ log[2].action = "EventPrivate"
    /\ events[Len(events)].prioritize_local
    /\ ~events[Len(events)].isShared

----------------------------------------------------------------------------
(* Properties of the onboarding handlers                                   *)

\* the required fields of a handler that the body lacks or leaves empty
AbsentFields(fields, p) ==
    {f \in fields : IF f = "catalog_sample" THEN p[f] = <<>> ELSE p[f] = ""}

EdcFields == {"name", "contact_email", "connector_endpoint"}
LegacyFields == EdcFields \cup {"certificate_thumbprint", "catalog_sample"}

\* the answer and the log of a request rejected for the absent fields
RejectedForMissing(absent) ==
    /\ response'.status = "rejected"
    /\ Len(response'.reason) = 2
    /\ response'.reason[1] = "Missing fields"
    /\ SeqRange(response'.reason[2]) = absent
    /\ Len(response'.reason[2]) = Cardinality(absent)
    /\ Len(log') = 2
    /\ log'[1].action = "OnboardingRequestReceived"
    /\ Levels(log') = <<"INFO", "WARN">>
    /\ orgs' = orgs

\* C8: in both onboarding handlers a request lacking a required field is
\* answered "rejected" with a reason listing exactly the missing required
\* fields, appends exactly two log entries (OnboardingRequestReceived at
\* INFO, then a rejection at WARN) and creates or modifies no Organization.
MissingFieldsRejected ==
    [][/\ \A sess \in VolIds \cup {0}, p \in EdcPayloads :
             (OnboardEdc(sess, "POST", p) /\ AbsentFields(EdcFields, p) # {}) =>
                 RejectedForMissing(AbsentFields(EdcFields, p))
       /\ \A p \in LegacyPayloads :
             (OnboardLegacy("POST", p) /\ AbsentFields(LegacyFields, p) # {}) =>
                 RejectedForMissing(AbsentFields(LegacyFields, p))]_vars

\* a request rejected for two missing fields
RejectedForTwoFields ==
    /\ response.status = "rejected"
    /\ Len(log) = 2
    /\ Len(response.reason) = 2
    /\ Len(response.reason[2]) = 2

\* C9 as stated: every request to the routed handler with all required
\* fields present ends "approved", with an OnboardingApproved entry and a
\* persisted Organization that is a dataspace member.
CompleteRequestApproved ==
    [][\A sess \in VolIds \cup {0}, p \in EdcPayloads :
          (OnboardEdc(sess, "POST", p) /\ AbsentFields(EdcFields, p) = {}) =>
              /\ response'.status = "approved"
              /\ "OnboardingApproved" \in SeqRange(Actions(log'))
              /\ orgs'[response'.organization_id].member_ds]_vars

\* C9: a request to the routed handler with all required fields present
\* ends "approved", with an OnboardingApproved entry and the session
\* volunteer's Organization updated to a dataspace member, when the
\* session holds a volunteer who has an organization; without a session
\* volunteer, or when the volunteer has no organization, it ends "rejected"
\* after the validation and mapping entries, with no OnboardingApproved
\* entry and no Organization changed.
CompleteRequestApprovedForOrgVolunteer ==
    [][\A sess \in VolIds \cup {0}, p \in EdcPayloads :
          (OnboardEdc(sess, "POST", p) /\ AbsentFields(EdcFields, p) = {}) =>
              IF sess \in VolIds /\ vols[sess].organization \in OrgIds
              THEN /\ response'.status = "approved"
                   /\ response'.organization_id = vols[sess].organization
                   /\ "OnboardingApproved" \in SeqRange(Actions(log'))
                   /\ orgs'[vols[sess].organization].member_ds
                   /\ orgs'[vols[sess].organization].connector_endpoint
                         = p.connector_endpoint
                   /\ Len(orgs') = Len(orgs)
                   /\ \A o \in OrgIds \ {vols[sess].organization} : orgs'[o] = orgs[o]
              ELSE /\ response'.status = "rejected"
                   /\ "OnboardingApproved" \notin SeqRange(Actions(log'))
                   /\ Len(log') = 10
                   /\ orgs' = orgs]_vars

\* the routed handler approved a request
RoutedHandlerApproved ==
    /\ response.status = "approved"
    /\ Len(log) = 12
    /\ log[11].action = "OnboardingApproved"
    /\ log[12].action = "ExposedEndpoints"
    /\ orgs[response.organization_id].member_ds

\* the positions of the catalog sample holding a skill outside the table
UnmappedPositions(cs) ==
    {<<i, j>> \in (1..Len(cs)) \X (1..MaxCatalogSkills + 1) :
        /\ j <= Len(cs[i])
        /\ cs[i][j] \notin {"CPR", "Emergency Response", "First Aid",
                            "Team Leadership", "Environmental Care"}}

\* C10: in the five-field handler, with all required fields present, the
\* decision depends only on the number of catalog-sample skills (with
\* multiplicity across items) absent from the static skill table: more than
\* 2 gives "rejected" with a WARN entry and no Organization created; 2 or
\* fewer gives "approved", exactly one new Organization that is a dataspace
\* member, and OnboardingApproved as the last log entry.
DecisionByUnknownCount ==
    [][\A p \in LegacyPayloads :
          (OnboardLegacy("POST", p) /\ AbsentFields(LegacyFields, p) = {}) =>
              IF Cardinality(UnmappedPositions(p.catalog_sample)) > 2
              THEN /\ response'.status = "rejected"
                   /\ log'[Len(log')].level = "WARN"
                   /\ "OnboardingApproved" \notin SeqRange(Actions(log'))
                   /\ orgs' = orgs
              ELSE /\ response'.status = "approved"
                   /\ Len(orgs') = Len(orgs) + 1
                   /\ SubSeq(orgs', 1, Len(orgs)) = orgs
                   /\ orgs'[Len(orgs')].member_ds
                   /\ orgs'[Len(orgs')].name = p.name
                   /\ log'[Len(log')].action = "OnboardingApproved"]_vars

\* the five-field handler approved a sample with two unknown skills in
\* different items
ApprovedAtThreshold ==
    /\ response.status = "approved"
    /\ Len(log) = 7
    /\ log[5].action = "SkillMapping"
    /\ log[5].details.unknown = 2
    /\ Len(log[5].details.catalog) = 2
    /\ "Juggling" \in SeqRange(log[5].details.catalog[2])
    /\ log[7].action = "OnboardingApproved"

----------------------------------------------------------------------------
(* Properties of the certificate request                                   *)

RECURSIVE SuppliedTotal(_)
\* the hours the request's items claim, summed
SuppliedTotal(items) ==
    IF items = <<>> THEN 0 ELSE Head(items).hours + SuppliedTotal(Tail(items))

RECURSIVE StoredTotal(_)
\* the stored durations of a set of events, summed
StoredTotal(S) ==
    IF S = {} THEN 0
    ELSE LET e == CHOOSE x \in S : TRUE
         IN events[e].duration_hours + StoredTotal(S \ {e})

\* the events a request names
Named(items) == {items[i].id : i \in 1..Len(items)}

\* every item names an existing event
NamesExisting(items) == Named(items) \subseteq EventIds

\* no event is named twice
NamesDistinct(items) == Cardinality(Named(items)) = Len(items)

\* exactly one Certificate is added, the earlier ones are kept
OneCertificateAdded ==
    /\ Len(certs') = Len(certs) + 1
    /\ SubSeq(certs', 1, Len(certs)) = certs

\* C11 as stated: for a request whose items all name existing events, an
\* item list summing to fewer than 100 hours is rejected with the
\* Certificates unchanged, and one summing to 100 hours or more creates
\* exactly one new Certificate.
ItemHoursDecideIssuance ==
    [][\A vid \in VolIds, items \in ItemLists :
          (CertificateRequest(vid, items) /\ NamesExisting(items)) =>
              IF SuppliedTotal(items) < 100
              THEN response'.status = "rejected" /\ certs' = certs
              ELSE OneCertificateAdded]_vars

\* C11: for a request whose items name distinct existing events, stored
\* durations of those events summing to fewer than 100 hours give a
\* rejection with the Certificates unchanged, and 100 hours or more create
\* exactly one new Certificate; a request naming an event twice is refused
\* as a bad request and creates none.
StoredHoursDecideIssuance ==
    [][\A vid \in VolIds, items \in ItemLists :
          (CertificateRequest(vid, items) /\ NamesExisting(items)) =>
              IF ~NamesDistinct(items)
              THEN response'.status = "bad_request" /\ certs' = certs
              ELSE IF StoredTotal(Named(items)) < 100
              THEN response'.status = "rejected" /\ certs' = certs
              ELSE response'.status = "issued" /\ OneCertificateAdded]_vars

\* a certificate issued for events whose stored durations sum to exactly 100
IssuedAtMilestone ==
    /\ response.status = "issued"
    /\ response.total = 100
    /\ Len(certs) >= 1
    /\ Len(certs[response.certificate].items) = 1

\* the total a certificate response reports
ReportedTotal(r) ==
    IF r.status = "issued" THEN r.total ELSE r.reason[4]

\* C12 as stated: the total compared against the milestone is the sum of
\* the hours the client supplied in the request items.
TotalIsSuppliedHours ==
    [][\A vid \in VolIds, items \in ItemLists :
          (CertificateRequest(vid, items) /\ NamesExisting(items)
                                          /\ NamesDistinct(items)) =>
              ReportedTotal(response') = SuppliedTotal(items)]_vars

\* C12: the total compared against the milestone is the sum of the stored
\* durations of the events the items name; the hours the client supplied
\* are ignored, and neither the events' finished flag nor the volunteer's
\* registration is checked.
TotalIsStoredHours ==
    [][\A vid \in VolIds, items \in ItemLists :
          (CertificateRequest(vid, items) /\ NamesExisting(items)
                                          /\ NamesDistinct(items)) =>
              /\ ReportedTotal(response') = StoredTotal(Named(items))
              /\ (response'.status = "issued") <=> (StoredTotal(Named(items)) >= 100)
              /\ response'.status \in {"issued", "rejected"}]_vars

\* a certificate issued to a volunteer registered for nothing, over
\* unfinished events
IssuedWithoutRegistration ==
    /\ response.status = "issued"
    /\ vols[certs[response.certificate].volunteer].events = {}
    /\ \A k \in 1..Len(certs[response.certificate].items) :
          ~events[certs[response.certificate].items[k].event_id].isFinished

\* the Certificate the last response reports
Issued == certs[response.certificate]

\* the organizations whose events a certificate lists, the volunteer's own
\* organization left out
ContributingOrgs(c) ==
    {events[c.items[k].event_id].organization : k \in 1..Len(c.items)}
        \ {NoOrg, vols[c.volunteer].organization}

\* the log rows between the contract and the issuance, as (action, provider)
Attestations ==
    [k \in 1..(Len(log) - 4) |-> <<log[k + 2].action, log[k + 2].details.provider>>]

\* C13 as stated: a successful request appends EDC.CredentialRequest,
\* EDC.ContractNegotiated, one EDC.AttestationRequested immediately followed
\* by its EDC.AttestationReceived for each distinct contributing organization
\* other than the volunteer's home organization, Credential.Issued and
\* EDC.CredentialDelivered, in this order; a rejected request appends none.
AttestationPairPerOrganization ==
    /\ response.status = "rejected" => log = <<>>
    /\ response.status = "issued" =>
          LET from == ContributingOrgs(Issued) IN
          /\ Len(log) = 4 + 2 * Cardinality(from)
          /\ log[1].action = "EDC.CredentialRequest"
          /\ log[2].action = "EDC.ContractNegotiated"
          /\ log[Len(log) - 1].action = "Credential.Issued"
          /\ log[Len(log)].action = "EDC.CredentialDelivered"
          /\ \A o \in from :
                \E k \in 1..Cardinality(from) :
                    /\ Attestations[2 * k - 1] = <<"EDC.AttestationRequested", orgs[o].name>>
                    /\ Attestations[2 * k] = <<"EDC.AttestationReceived", orgs[o].name>>

\* the First Aid hours of a certificate's items
RecognizedHours(c) ==
    TotalHours(SelectSeq(c.items,
        LAMBDA it : \E k \in 1..Len(it.skills) : Lower(it.skills[k]) = "first aid"))

\* C14 as stated: a Certificate has the First Aid skill attached only if the
\* hours of its items that require the skill reach 100.
SkillAttachedOnlyAtThreshold ==
    \A i \in 1..Len(certs) :
        certs[i].skills # {} => RecognizedHours(certs[i]) >= 100

\* the organizations flagged as governance authority
Authorities == {o \in OrgIds : orgs[o].is_dsga}

\* C15: the issuer of every Certificate is the first organization flagged as
\* governance authority if there is one, and otherwise the volunteer's home
\* organization (none when the volunteer has none), whatever organizations
\* provided the items.
IssuerIsAuthorityElseHome ==
    \A i \in 1..Len(certs) :
        IF Authorities # {}
        THEN /\ certs[i].issuer \in Authorities
             /\ \A o \in Authorities : certs[i].issuer <= o
        ELSE certs[i].issuer = vols[certs[i].volunteer].organization

\* a certificate issued by the second of two organizations, the authority,
\* to a volunteer of the first over activities of the first
IssuedByAuthorityNotHome ==
    \E i \in 1..Len(certs) :
        /\ certs[i].issuer = 2
        /\ vols[certs[i].volunteer].organization = 1
        /\ \A k \in 1..Len(certs[i].items) :
              events[certs[i].items[k].event_id].organization = 1

\* C16 as stated, for the certificate request: a rejection for insufficient
\* hours appends a WARN-level log entry and returns a reason stating the
\* hours provided.
RejectionLoggedAtWarn ==
    response.status = "rejected" =>
        /\ \E k \in 1..Len(log) : log[k].level = "WARN"
        /\ response.reason[2] = 100
        /\ response.reason[4] < 100

\* the events a certificate lists
Listed(c) == {c.items[k].event_id : k \in 1..Len(c.items)}

\* C18: two certificates issued for the same item list carry the same proof
\* hash and are two rows with different ids, the later request having
\* created the row with the next id.
SameItemsSameProof ==
    /\ \A i, j \in 1..Len(certs) :
          Listed(certs[i]) = Listed(certs[j]) =>
              certs[i].proof_hash = certs[j].proof_hash
    /\ response.status = "issued" => response.certificate = Len(certs)

\* two certificates issued for the same events
TwoCertificatesSameItems ==
    /\ Len(certs) = 2
    /\ Listed(certs[1]) = Listed(certs[2])
    /\ Listed(certs[1]) # {}
    /\ response.status = "issued"
    /\ response.certificate = 2

----------------------------------------------------------------------------
(* Properties of the certificate context                                   *)

RECURSIVE HoursOf(_)
\* the hours of a list of activities, summed
HoursOf(acts) == IF acts = <<>> THEN 0 ELSE Head(acts).hours + HoursOf(Tail(acts))

\* the positions of the activities marked as contributing
Marked(acts) == {k \in 1..Len(acts) : acts[k].contributes}

\* activity k comes before activity j when the list is sorted by descending
\* hours, equal hours keeping their order
Before(acts, k, j) ==
    \/ acts[k].hours > acts[j].hours
    \/ acts[k].hours = acts[j].hours /\ k < j

\* C17: the activities marked as contributing are exactly the shortest prefix
\* of the activities sorted by descending hours whose hours reach the
\* milestone, contrib_sum is their total, and nothing is marked when the
\* volunteer's total is below the milestone.
MarksShortestDescendingPrefix ==
    response.status = "certificate_context" =>
        LET acts == response.activities
            marked == SelectSeq(acts, LAMBDA a : a.contributes)
        IN
        IF HoursOf(acts) < 100
        THEN Marked(acts) = {} /\ response.contrib_sum = 0
        ELSE /\ \A k \in Marked(acts), j \in (1..Len(acts)) \ Marked(acts) :
                    Before(acts, k, j)
             /\ response.contrib_sum = HoursOf(marked)
             /\ HoursOf(marked) >= 100
             /\ \A k \in Marked(acts) :
                    (\A j \in Marked(acts) \ {k} : Before(acts, j, k)) =>
                        HoursOf(marked) - acts[k].hours < 100

\* activities of 40, 30, 20, 15 and 10 hours: the first four are marked and
\* total 105
MarkedFourOfFive ==
    /\ response.status = "certificate_context"
    /\ [k \in 1..Len(response.activities) |-> response.activities[k].hours]
           = <<40, 30, 20, 15, 10>>
    /\ Marked(response.activities) = {1, 2, 3, 4}
    /\ response.contrib_sum = 105

----------------------------------------------------------------------------
(* Properties of services/dataspace.py                                     *)

\* the asset id and the offer id edc_register_asset_and_offer returns
RegisteredIds(oid, eid) == <<EdcInfo(oid, eid).asset_id, EdcInfo(oid, eid).contract_id>>

\* C19: edc_register_asset_and_offer returns the same asset id and offer id
\* for an (organization id, event id) pair before and after every request,
\* and a call for a published event returns the ids stored at publication,
\* whatever has changed since.
RegistrationIdsStable ==
    [][/\ \A o \in OrgIds, e \in 1..MaxEvents :
              RegisteredIds(o, e)' = RegisteredIds(o, e)
       /\ \A o \in 1..Len(orgs'), e \in 1..Len(events') :
              (events'[e].organization = o /\ events'[e].ds_asset_id # <<>>) =>
                  <<events'[e].ds_asset_id, events'[e].ds_contract_id>>
                      = RegisteredIds(o, e)']_vars

\* an event published before its organization's connector endpoint changed
PublishedBeforeEndpointChange ==
    \E e \in EventIds :
        /\ events[e].ds_asset_id # <<>>
        /\ events[e].ds_endpoint[1]
              # RStripSlash(orgs[events[e].organization].connector_endpoint)

\* the text of a name before position i
Before1(name, i) == SubSeq(name, 1, i - 1)

\* the privacy-reduced name: for a name with a space the text before the
\* first space, a space, the first character of the remainder and a period;
\* the name itself when it has no space
PrivacyReduced(name) ==
    IF \A i \in 1..Len(name) : name[i] # " " THEN name
    ELSE LET i == CHOOSE i \in 1..Len(name) :
                     name[i] = " " /\ \A j \in 1..(i - 1) : name[j] # " "
         IN Before1(name, i) \o <<" ", name[i + 1], ".">>

\* C20 as stated: the join and the cancel narrative both carry the
\* privacy-reduced name of the volunteer, and the transform yields a name
\* for every volunteer name.
NarrativesCarryReducedName ==
    [][\A v \in VolIds, e \in EventIds :
          /\ (RegisterEvent(v, e, "POST") /\ FederatedPair(v, e)) =>
                /\ response'.status # "error"
                /\ \E k \in 1..Len(log') :
                      /\ log'[k].action = "Participation.Requested"
                      /\ log'[k].details.name = PrivacyReduced(vols[v].name)
          /\ (UnregisterEvent(v, e, "POST") /\ FederatedPair(v, e)) =>
                /\ response'.status # "error"
                /\ log' # <<>>
                /\ log'[1].action = "Participation.Cancelled"
                /\ log'[1].details.name = PrivacyReduced(vols[v].name)]_vars

----------------------------------------------------------------------------
(* Properties of event creation, publication and the event life cycle      *)

\* C21 as stated: an event with prioritize_local set never appears in the
\* candidate event set (dashboard or events page) of a volunteer whose home
\* organization differs from the event's organization.
LocalFirstEventsStayLocal ==
    response.status \in {"dashboard", "events"} =>
        \A e \in DOMAIN response.annotated :
            events[e].prioritize_local =>
                events[e].organization = vols[response.volunteer].organization

\* the event a step has created
Created == events'[Len(events')]

\* C22 as stated: an event is published to the dataspace (asset and offer
\* registered, federation metadata stored on the event) only if the
\* connector endpoint of its organization is non-empty at that time.
PublishedOnlyWithEndpoint ==
    [][(Len(events') = Len(events) + 1 /\ Created.ds_asset_id # <<>>) =>
          orgs[Created.organization].connector_endpoint # ""]_vars

\* C23 as stated: every persisted event has a duration of at least one hour.
DurationAtLeastOne ==
    \A e \in EventIds : events[e].duration_hours >= 1

\* the federation metadata of an event
Federation(ev) == <<ev.shared_since, ev.ds_endpoint, ev.ds_asset_id, ev.ds_contract_id>>

\* C24 as stated: a shared event has shared_since set and endpoint, asset id
\* and contract id equal to the values derived for its (organization,
\* event) pair, a non-shared event has shared_since unset and the three
\* empty, and no later request changes these fields.
FederationMetadataIffShared ==
    /\ \A e \in EventIds :
          IF events[e].isShared
          THEN /\ events[e].shared_since # "None"
               /\ events[e].ds_asset_id = ShortId("asset", events[e].organization, e)
               /\ events[e].ds_contract_id = ShortId("offer", events[e].organization, e)
               /\ events[e].ds_endpoint # <<>>
          ELSE Federation(events[e]) = <<"None", <<>>, <<>>, <<>>>>

\* C26: a create_event or finish_event request of a volunteer who is not a
\* manager at that moment creates no event, changes no event and appends no
\* log entry; finish_event changes only an event of the manager's own
\* organization and only by setting isFinished; no step sets isFinished back
\* or removes an event.
OnlyManagersCreateAndFinish ==
    [][/\ \A v \in VolIds :
            ~vols[v].is_manager =>
                /\ \A m \in Methods, x \in BOOLEAN :
                      CreateEvent(v, m, "", <<>>, x, FALSE) =>
                          events' = events /\ log' = <<>>
                /\ \A e \in EventIds :
                      FinishEvent(v, e) => events' = events /\ log' = <<>>
       /\ \A v \in VolIds, e \in EventIds :
            (FinishEvent(v, e) /\ events' # events) =>
                /\ vols[v].is_manager
                /\ events[e].organization = vols[v].organization
                /\ events' = [events EXCEPT ![e].isFinished = TRUE]
       /\ Len(events') >= Len(events)
       /\ \A e \in EventIds : events[e].isFinished => events'[e].isFinished]_vars

\* a finish request of a volunteer without the manager role was refused,
\* after another event had been finished by a manager
NonManagerFinishRefused ==
    /\ response = [status |-> "redirect", message |-> "Only managers can finish events."]
    /\ log = <<>>
    /\ \E e \in EventIds : events[e].isFinished
    /\ \E e \in EventIds : ~events[e].isFinished

----------------------------------------------------------------------------
(* Properties of register_event and unregister_event                       *)

\* the name ends at its first space: the reduced name cannot be built
EndsAtFirstSpace(name) ==
    /\ name # <<>>
    /\ name[Len(name)] = " "
    /\ \A j \in 1..(Len(name) - 1) : name[j] # " "

\* C25: register_event commits the registration before the join narrative,
\* and a failure part-way through the narrative is not rolled back: the
\* registration and the three entries appended before the failure remain and
\* the remaining entries are not appended.
FailedJoinKeepsRegistration ==
    [][\A v \in VolIds, e \in EventIds :
          (RegisterEvent(v, e, "POST") /\ FederatedPair(v, e)) =>
              /\ e \in vols'[v].events
              /\ log' # <<>>
              /\ EndsAtFirstSpace(vols[v].name) =>
                    /\ response'.status = "error"
                    /\ Actions(log') = <<"EDC.CatalogRequest", "EDC.CatalogResponse",
                                         "EDC.ContractNegotiated">>]_vars

\* a join that failed after the contract negotiation: the volunteer is
\* registered and the narrative stops there
JoinFailedMidway ==
    /\ response = [status |-> "error"]
    /\ Len(log) = 3
    /\ log[3].action = "EDC.ContractNegotiated"
    /\ \E v \in VolIds : EndsAtFirstSpace(vols[v].name) /\ vols[v].events # {}

----------------------------------------------------------------------------
(* Cardinality of the contributing subset                                  *)

RECURSIVE SumAt(_, _)
\* the hours at a set of positions of a list of hours, summed
SumAt(hs, S) ==
    IF S = {} THEN 0
    ELSE LET k == CHOOSE x \in S : TRUE IN hs[k] + SumAt(hs, S \ {k})

\* the lists of activities the volunteer can have completed
Distributions == UNION {[1..n -> ActivityHours] : n \in 0..MaxActivities}

\* the subset _minimal_subset_to_reach returns for a list of hours
Selected(hs) ==
    MinimalSubsetToReach(MILESTONE_HOURS, [k \in 1..Len(hs) |-> [id |-> k, hours |-> hs[k]]]).ids

\* C27 as stated: for some distribution of durations whose total reaches the
\* target, a subset with fewer activities than the returned one reaches the
\* target too.  The distributions are those of up to MaxActivities
\* activities, which is as many as a state holds.
SmallerSubsetExists ==
    \E hs \in Distributions :
        /\ Len(events) <= MaxActivities
        /\ SumAt(hs, 1..Len(hs)) >= 100
        /\ \E S \in SUBSET (1..Len(hs)) :
              /\ SumAt(hs, S) >= 100
              /\ Cardinality(S) < Cardinality(Selected(hs))

\* the hours of the activities of a certificate context
ContextHours == [k \in 1..Len(response.activities) |-> response.activities[k].hours]

\* C27: whenever the total reaches the target, no subset with fewer
\* activities than the contributing subset reaches the target: the greedy
\* choice is minimal in cardinality (another subset of the same size may
\* reach the target with fewer hours).
NoSmallerSubsetReaches ==
    (response.status = "certificate_context" /\ response.eligible) =>
        \A S \in SUBSET (1..Len(response.activities)) :
            SumAt(ContextHours, S) >= 100 =>
                Cardinality(S) >= Cardinality(Marked(response.activities))

\* the contributing subset totals 105 hours while another subset of the
\* same size totals exactly 100
SameSizeFewerHours ==
    /\ response.status = "certificate_context"
    /\ response.contrib_sum = 105
    /\ \E S \in SUBSET (1..Len(response.activities)) :
          /\ SumAt(ContextHours, S) = 100
          /\ Cardinality(S) = Cardinality(Marked(response.activities))

----------------------------------------------------------------------------
(* Properties of registrations and of the hours figures                    *)

\* C28 as stated: a cancel narrative for a volunteer and an event is logged
\* only for a participation that was recorded by a join narrative and is
\* still active.  Where no organization ever leaves the dataspace a
\* participation between two organizations is recorded and active exactly
\* while the volunteer is registered for the event.
CancelOnlyForActiveParticipation ==
    [][\A v \in VolIds, e \in EventIds :
          (/\ UnregisterEvent(v, e, "POST")
           /\ \E k \in 1..Len(log') : log'[k].action = "Participation.Cancelled") =>
              e \in vols[v].events]_vars

\* the event requires no skill the volunteer lacks
NothingMissing(v, e) ==
    \A k \in 1..Len(events[e].skills) : events[e].skills[k] \in vols[v].skills

\* C29 as stated: each event register_event adds to a volunteer's
\* registrations is, at that moment, in the volunteer's candidate event set,
\* not finished, and requires no skill the volunteer lacks.
RegisteredOnlyIfCandidate ==
    [][\A v \in VolIds, e \in EventIds :
          (e \in vols'[v].events /\ e \notin vols[v].events) =>
              /\ e \in ExpectedCandidates(v)
              /\ ~events[e].isFinished
              /\ NothingMissing(v, e)]_vars

\* the durations of the finished events the volunteer is registered for
FinishedHours(v) == StoredTotal({e \in vols[v].events : events[e].isFinished})

\* C30 as stated: the hours_volunteered of dashboard_view and the
\* total_hours of api_certificate_context are both the sum of the durations
\* of all finished events the volunteer is registered for, and both compare
\* it with the 100-hour milestone.
HoursFiguresAgree ==
    /\ response.status = "dashboard" =>
          /\ response.hours_volunteered = FinishedHours(response.volunteer)
          /\ response.milestone_reached = (FinishedHours(response.volunteer) >= 100)
    /\ response.status = "certificate_context" =>
          /\ response.total_hours = FinishedHours(response.volunteer)
          /\ response.eligible = (FinishedHours(response.volunteer) >= 100)

====
